---- MODULE Spec2Model ----
(***************************************************************************)
(* LogAnomalyDetector of src/log_sentinel.py: a TF-IDF vectorizer feeding  *)
(* an isolation forest, behind train / predict and a trained flag.         *)
(*                                                                         *)
(* The two library objects the class holds (TfidfVectorizer and            *)
(* IsolationForest of scikit-learn) are modelled by what their calls do:   *)
(* reals are held in fixed point (thousandths), the forest's pseudo-random *)
(* generator is a small linear congruential generator seeded by            *)
(* random_state, and the forest's default sizes (100 trees, subsamples of  *)
(* at most 256 rows) are scaled down to NEstimators and MaxSamplesAuto.    *)
(***************************************************************************)
EXTENDS Integers, Sequences, FiniteSets, TLC

\* ------------------------------------------------------------------ bounds
MaxCorpus == 4
MaxBatch == 2
\* n_estimators (100 by default) scaled down
NEstimators == 2
\* max_samples='auto' is min(256, n_samples); 256 scaled down
MaxSamplesAuto == 3

\* ------------------------------------------------------- program constants
\* IsolationForest(..., random_state=42)
RandomState == 42
\* fixed-point unit of the reals
Milli == 1000

\* Tokens are small integers; token 0 stands for the words of the 'english'
\* stop list, the others for ordinary words of two or more characters.
StopWords == {0}

\* The log lines callers pass in: a one-word line, and a line that shares
\* that word, adds another and holds a stop word.
Lines == { <<1>>, <<2, 0, 1>> }

\* The contamination rates a detector is constructed with, in percent: the
\* 0.1 of the main block, and one above 0.5.
ContaminationRates == {10, 70}

\* ---------------------------------------------------------------- helpers
Range(s) == { s[i] : i \in 1..Len(s) }

Min(a, b) == IF a <= b THEN a ELSE b

Max(a, b) == IF a >= b THEN a ELSE b

\* <<f[1], ..., f[n]>>, every element computed once
RECURSIVE Tabulate(_, _)
Tabulate(f, n) == IF n <= 0 THEN <<>> ELSE Tabulate(f, n - 1) \o <<f[n]>>

RECURSIVE SumSeq(_)
SumSeq(s) == IF s = <<>> THEN 0 ELSE Head(s) + SumSeq(Tail(s))

RECURSIVE IsqrtIn(_, _, _)
IsqrtIn(x, lo, hi) ==
    IF lo >= hi THEN lo
    ELSE LET mid == (lo + hi + 1) \div 2
         IN IF mid * mid <= x THEN IsqrtIn(x, mid, hi) ELSE IsqrtIn(x, lo, mid - 1)

\* floor of the square root
Isqrt(x) == IsqrtIn(x, 0, Min(x, 46340))

\* 1000 * ln(k), rounded
LnMilli(k) ==
    CASE k = 1 -> 0
      [] k = 2 -> 693
      [] k = 3 -> 1099
      [] k = 4 -> 1386
      [] k = 5 -> 1609
      [] k = 6 -> 1792
      [] k = 7 -> 1946
      [] k = 8 -> 2079
      [] k = 9 -> 2197
      [] OTHER -> 2303

RECURSIVE Pow2(_)
Pow2(k) == IF k <= 0 THEN 1 ELSE 2 * Pow2(k - 1)

RECURSIVE CeilLog2(_)
CeilLog2(n) == IF n <= 1 THEN 0 ELSE 1 + CeilLog2((n + 1) \div 2)

\* 1000 * 2^(-e/1000): exact at whole e, linear in between
Pow2NegMilli(e) == (Milli - ((e % Milli) \div 2)) \div Pow2(e \div Milli)

\* The generator behind random_state: one step, and the draw a tree makes at
\* a node.
Lcg(x) == (x * 75 + 74) % 65537

NodeRand(seed, node, k) == Lcg(Lcg(seed + 7 * node) + k)

\* ------------------------------------------------------------- vectorizer
\* TfidfVectorizer(stop_words='english'): the analyzer drops stop words.
Analyze(line) == SelectSeq(line, LAMBDA t : t \notin StopWords)

RECURSIVE Flatten(_)
Flatten(docs) == IF docs = <<>> THEN <<>> ELSE Head(docs) \o Flatten(Tail(docs))

\* A variant that numbers the terms in first-seen order.
VocabularyIndexFirstSeen(docs) ==
    LET all == Flatten(docs)
        first(t) == CHOOSE i \in 1..Len(all) :
                        all[i] = t /\ \A j \in 1..(i - 1) : all[j] # t
    IN [t \in Range(all) |->
            Cardinality({ u \in Range(all) : first(u) <= first(t) })]

\* vocabulary_: term -> column, the terms in sorted order.
VocabularyIndex(docs) ==
    LET terms == Range(Flatten(docs))
    IN [t \in terms |-> Cardinality({ u \in terms : u <= t })]

\* idf_ per column: ln((1 + n) / (1 + df)) + 1
Idf(docs, vocabulary) ==
    LET n == Len(docs)
        df(t) == Cardinality({ i \in 1..n : t \in Range(docs[i]) })
        term(j) == CHOOSE t \in DOMAIN vocabulary : vocabulary[t] = j
        D == Cardinality(DOMAIN vocabulary)
    IN Tabulate([j \in 1..D |-> LnMilli(1 + n) - LnMilli(1 + df(term(j))) + Milli], D)

UnfittedVectorizer == [fitted |-> FALSE, vocabulary |-> <<>>, idf |-> <<>>]

\* transform: term counts over the known terms, weighted by idf, scaled to
\* unit Euclidean length (a line with no known term is the zero row).
Transform(self, line) ==
    LET doc == Analyze(line)
        D == Len(self.idf)
        term(j) == CHOOSE t \in DOMAIN self.vocabulary : self.vocabulary[t] = j
        tf(t) == Cardinality({ i \in 1..Len(doc) : doc[i] = t })
        w == Tabulate([j \in 1..D |-> tf(term(j)) * self.idf[j]], D)
        norm == Isqrt(SumSeq(Tabulate([j \in 1..D |-> w[j] * w[j]], D)))
    IN Tabulate([j \in 1..D |-> IF norm = 0 THEN 0 ELSE (w[j] * Milli) \div norm], D)

TransformAll(self, logs) ==
    Tabulate([i \in 1..Len(logs) |-> Transform(self, logs[i])], Len(logs))

\* A variant of fit_transform that learns the vocabulary only once.
VectorizerFitOnce(self, logs) ==
    LET docs == Tabulate([i \in 1..Len(logs) |-> Analyze(logs[i])], Len(logs))
        vocabulary == VocabularyIndex(docs)
        fitted == [fitted |-> TRUE, vocabulary |-> vocabulary,
                   idf |-> Idf(docs, vocabulary)]
    IN IF DOMAIN vocabulary = {}
       THEN [ok |-> FALSE, self |-> self, X |-> <<>>]
       ELSE IF self.fitted
       THEN [ok |-> TRUE, self |-> self, X |-> TransformAll(self, logs)]
       ELSE [ok |-> TRUE, self |-> fitted, X |-> TransformAll(fitted, logs)]

\* fit_transform: learns vocabulary and idf from logs alone and returns their
\* rows; with no term left after stop words it raises ValueError (empty
\* vocabulary) before anything is stored.
VectorizerFitTransform(self, logs) ==
    LET docs == Tabulate([i \in 1..Len(logs) |-> Analyze(logs[i])], Len(logs))
        vocabulary == VocabularyIndex(docs)
        fitted == [fitted |-> TRUE, vocabulary |-> vocabulary,
                   idf |-> Idf(docs, vocabulary)]
    IN IF DOMAIN vocabulary = {}
       THEN [ok |-> FALSE, self |-> self, X |-> <<>>]
       ELSE [ok |-> TRUE, self |-> fitted, X |-> TransformAll(fitted, logs)]

\* ---------------------------------------------------------------- forest
\* A tree is <<"leaf", n>> or <<"node", feature, threshold, left, right>>.

\* sample_without_replacement(n, k): k row positions, drawn from the seed
RECURSIVE DrawFrom(_, _, _)
DrawFrom(pool, k, seed) ==
    IF k = 0 THEN {}
    ELSE LET i == 1 + (Lcg(seed + k) % Len(pool))
             rest == SubSeq(pool, 1, i - 1) \o SubSeq(pool, i + 1, Len(pool))
         IN {pool[i]} \cup DrawFrom(rest, k - 1, Lcg(seed + k))

SampleIndices(n, k, seed) ==
    IF k >= n THEN 1..n ELSE DrawFrom(Tabulate([i \in 1..n |-> i], n), k, seed)

RECURSIVE ColumnMin(_, _)
ColumnMin(S, f) ==
    IF Len(S) = 1 THEN S[1][f] ELSE Min(S[1][f], ColumnMin(Tail(S), f))

RECURSIVE ColumnMax(_, _)
ColumnMax(S, f) ==
    IF Len(S) = 1 THEN S[1][f] ELSE Max(S[1][f], ColumnMax(Tail(S), f))

\* One tree of the forest (an extremely randomized tree with one candidate
\* feature): a node of fewer than two rows, at the depth limit, or with every
\* column constant is a leaf; otherwise a column drawn among the non-constant
\* ones and a threshold drawn between its minimum and maximum split the rows.
RECURSIVE BuildTree(_, _, _, _, _)
BuildTree(S, depth, node, seed, maxDepth) ==
    LET D == IF S = <<>> THEN 0 ELSE Len(S[1])
        lo == Tabulate([f \in 1..D |-> ColumnMin(S, f)], D)
        hi == Tabulate([f \in 1..D |-> ColumnMax(S, f)], D)
        cands == SelectSeq(Tabulate([f \in 1..D |-> f], D), LAMBDA f : lo[f] < hi[f])
    IN IF Len(S) <= 1 \/ depth >= maxDepth \/ cands = <<>>
       THEN <<"leaf", Len(S)>>
       ELSE LET f == cands[1 + (NodeRand(seed, node, 1) % Len(cands))]
                thr == lo[f] + (NodeRand(seed, node, 2) % (hi[f] - lo[f]))
            IN <<"node", f, thr,
                 BuildTree(SelectSeq(S, LAMBDA x : x[f] <= thr),
                           depth + 1, 2 * node, seed, maxDepth),
                 BuildTree(SelectSeq(S, LAMBDA x : x[f] > thr),
                           depth + 1, 2 * node + 1, seed, maxDepth)>>

\* _average_path_length: c(n), in thousandths
AveragePathLength(n) ==
    IF n <= 1 THEN 0
    ELSE IF n = 2 THEN Milli
    ELSE 2 * (LnMilli(n - 1) + 577) - (2 * Milli * (n - 1)) \div n

RECURSIVE PathLength(_, _, _)
PathLength(tree, x, edges) ==
    IF tree[1] = "leaf" THEN Milli * edges + AveragePathLength(tree[2])
    ELSE IF x[tree[2]] <= tree[3] THEN PathLength(tree[4], x, edges + 1)
    ELSE PathLength(tree[5], x, edges + 1)

\* the anomaly score 2^(-E[h(x)] / c(max_samples)) of the paper, in
\* thousandths; with a single training row the denominator is 0 and every
\* score is 2^(-1)
AnomalyScore(self, x) ==
    LET T == Len(self.estimators)
        depths == SumSeq(Tabulate([i \in 1..T |-> PathLength(self.estimators[i], x, 0)], T))
        denominator == Len(self.estimators) * AveragePathLength(self.max_samples)
    IN IF denominator = 0 THEN Pow2NegMilli(Milli)
       ELSE Pow2NegMilli((depths * Milli) \div denominator)

\* score_samples: the opposite of the anomaly score (the lower, the more
\* abnormal)
ScoreSamples(self, x) == 0 - AnomalyScore(self, x)

\* 100 * np.percentile(scores, q): linear interpolation between the order
\* statistics around position q/100 * (n - 1)
Percentile100(scores, q) ==
    LET a == SortSeq(scores, LAMBDA u, v : u < v)
        n == Len(a)
        lower == (q * (n - 1)) \div 100
        frac == (q * (n - 1)) % 100
        upper == Min(lower + 1, n - 1)
    IN 100 * a[lower + 1] + frac * (a[upper + 1] - a[lower + 1])

\* IsolationForest(contamination=contamination, random_state=42), not fitted
NewForest(contamination) ==
    [contamination |-> contamination, fitted |-> FALSE, estimators |-> <<>>,
     max_samples |-> 0, offset100 |-> 0]

\* contamination must lie in (0, 0.5]: fit validates it before anything else
ContaminationValid(contamination) == contamination > 0 /\ contamination <= 50

\* IsolationForest.fit(X): NEstimators trees, each grown on max_samples rows
\* drawn by position with the tree's seed; offset_ is the contamination
\* percentile of the training rows' score_samples.
ForestFit(self, X) ==
    LET n == Len(X)
        max_samples == Min(MaxSamplesAuto, n)
        max_depth == CeilLog2(Max(max_samples, 2))
        seedOf(i) == Lcg(RandomState + i)
        rows(i) == LET idx == SampleIndices(n, max_samples, seedOf(i))
                       at == SelectSeq(Tabulate([r \in 1..n |-> r], n), LAMBDA r : r \in idx)
                   IN Tabulate([r \in 1..Len(at) |-> X[at[r]]], Len(at))
        grown == [contamination |-> self.contamination,
                  fitted |-> TRUE,
                  estimators |-> Tabulate([i \in 1..NEstimators |->
                                              BuildTree(rows(i), 0, 1, seedOf(i), max_depth)],
                                          NEstimators),
                  max_samples |-> max_samples,
                  offset100 |-> 0]
        scores == Tabulate([r \in 1..n |-> ScoreSamples(grown, X[r])], n)
    IN IF ~ContaminationValid(self.contamination)
       THEN [ok |-> FALSE, self |-> self]
       ELSE [ok |-> TRUE,
             self |-> [grown EXCEPT
                          !.offset100 = Percentile100(scores, self.contamination)]]

\* A variant that also counts a decision of exactly 0 as an outlier.
IsOutlierOrTie(decision) == decision <= 0

\* decision_function < 0
IsOutlier(decision) == decision < 0

\* IsolationForest.predict: -1 for an outlier, 1 for an inlier, by the sign
\* of decision_function = score_samples - offset_
ForestPredict(self, x) ==
    IF IsOutlier(100 * ScoreSamples(self, x) - self.offset100) THEN -1 ELSE 1

\* --------------------------------------------------------------- detector
VARIABLES
    vectorizer,   \* self.vectorizer
    model,        \* self.model
    is_trained,   \* self.is_trained
    call,         \* the last call made: [op, arg]
    outcome,      \* how it ended: a return or the exception raised
    results,      \* the rows of the DataFrame predict returned
    trainedOn,    \* history: <<logs>> of the last train that returned
    retrained     \* history: a train returned on a detector already trained

vars == <<vectorizer, model, is_trained, call, outcome, results, trainedOn, retrained>>

Corpora == UNION { [1..n -> Lines] : n \in 0..MaxCorpus }

Batches == UNION { [1..n -> Lines] : n \in 0..MaxBatch }

\* self.is_trained = False
InitIsTrained == FALSE

\* A variant of the guard that never raises.
NeverRaises(trained) == FALSE

\* if not self.is_trained: raise Exception(...)
RaisesNotTrained(trained) == ~trained

\* A variant with the two labels exchanged.
StatusOfExchanged(p) == IF p = -1 THEN "Normal" ELSE "ANOMALY"

\* 'ANOMALY' if p == -1 else 'Normal'
StatusOf(p) == IF p = -1 THEN "ANOMALY" ELSE "Normal"

\* train(logs): fit_transform, then fit, then the flag; an exception of
\* either call leaves what was assigned before it.
\*   "EmptyVocabulary"  : ValueError of fit_transform
\*   "InvalidParameter" : ValueError of IsolationForest.fit
TrainStep(vec, mod, trained, logs) ==
    LET v == VectorizerFitTransform(vec, logs)
        f == ForestFit(mod, v.X)
    IN IF ~v.ok
       THEN [vectorizer |-> v.self, model |-> mod, is_trained |-> trained,
             outcome |-> "EmptyVocabulary"]
       ELSE IF ~f.ok
       THEN [vectorizer |-> v.self, model |-> f.self, is_trained |-> trained,
             outcome |-> "InvalidParameter"]
       ELSE [vectorizer |-> v.self, model |-> f.self, is_trained |-> TRUE,
             outcome |-> "Trained"]

\* A variant of predict that goes on learning from the lines it is given.
PredictStepLearning(vec, mod, trained, new_logs) ==
    LET learnt == TrainStep(vec, mod, trained, new_logs)
    IN IF RaisesNotTrained(trained)
       THEN [vectorizer |-> vec, model |-> mod, is_trained |-> trained,
             outcome |-> "NotTrained", results |-> <<>>]
       ELSE IF new_logs = <<>>
       THEN [vectorizer |-> vec, model |-> mod, is_trained |-> trained,
             outcome |-> "EmptyInput", results |-> <<>>]
       ELSE [vectorizer |-> learnt.vectorizer, model |-> learnt.model,
             is_trained |-> trained, outcome |-> "Results",
             results |-> Tabulate([i \in 1..Len(new_logs) |->
                 [Log_Message |-> new_logs[i],
                  Status |-> StatusOf(ForestPredict(mod, Transform(vec, new_logs[i])))]],
                 Len(new_logs))]

\* predict(new_logs): the guard, transform, model.predict, the report.
\*   "NotTrained" : the Exception of the guard
\*   "EmptyInput" : ValueError of the library for an array of 0 samples
PredictStep(vec, mod, trained, new_logs) ==
    LET X_new == TransformAll(vec, new_logs)
        predictions == Tabulate([i \in 1..Len(new_logs) |-> ForestPredict(mod, X_new[i])],
                                Len(new_logs))
    IN IF RaisesNotTrained(trained)
       THEN [vectorizer |-> vec, model |-> mod, is_trained |-> trained,
             outcome |-> "NotTrained", results |-> <<>>]
       ELSE IF new_logs = <<>>
       THEN [vectorizer |-> vec, model |-> mod, is_trained |-> trained,
             outcome |-> "EmptyInput", results |-> <<>>]
       ELSE [vectorizer |-> vec, model |-> mod, is_trained |-> trained,
             outcome |-> "Results",
             results |-> Tabulate([i \in 1..Len(new_logs) |->
                 [Log_Message |-> new_logs[i], Status |-> StatusOf(predictions[i])]],
                 Len(new_logs))]

\* __init__(contamination)
Init ==
    /\ vectorizer = UnfittedVectorizer
    /\ \E c \in ContaminationRates : model = NewForest(c)
    /\ is_trained = InitIsTrained
    /\ call = [op |-> "init", arg |-> <<>>]
    /\ outcome = "Constructed"
    /\ results = <<>>
    /\ trainedOn = <<>>
    /\ retrained = FALSE

Train(logs) ==
    \E r \in {TrainStep(vectorizer, model, is_trained, logs)} :
       /\ vectorizer' = r.vectorizer
       /\ model' = r.model
       /\ is_trained' = r.is_trained
       /\ call' = [op |-> "train", arg |-> logs]
       /\ outcome' = r.outcome
       /\ results' = <<>>
       /\ trainedOn' = IF r.outcome = "Trained" THEN <<logs>> ELSE trainedOn
       /\ retrained' = IF r.outcome = "Trained" THEN trainedOn # <<>> ELSE retrained

Predict(new_logs) ==
    \E r \in {PredictStep(vectorizer, model, is_trained, new_logs)} :
       /\ vectorizer' = r.vectorizer
       /\ model' = r.model
       /\ is_trained' = r.is_trained
       /\ call' = [op |-> "predict", arg |-> new_logs]
       /\ outcome' = r.outcome
       /\ results' = r.results
       /\ UNCHANGED <<trainedOn, retrained>>

Next ==
    \/ \E logs \in Corpora : Train(logs)
    \/ \E new_logs \in Batches : Predict(new_logs)

Spec == Init /\ [][Next]_vars

\* ------------------------------------------------------------ properties
\* A detector just constructed with the same contamination and trained once.
FreshTrained(contamination, logs) ==
    TrainStep(UnfittedVectorizer, NewForest(contamination), FALSE, logs)

\* The orders in which the lines of a corpus can be passed.
Perms(s) ==
    { Tabulate([i \in 1..Len(s) |-> s[p[i]]], Len(s)) : p \in Permutations(1..Len(s)) }

\* The anomaly score of a line under the current vectorizer and forest.
ScoreOfLine(line) == AnomalyScore(model, Transform(vectorizer, line))

\* The anomaly scores of the lines the detector was last trained on.
TrainingScores ==
    Tabulate([r \in 1..Len(trainedOn[1]) |-> ScoreOfLine(trainedOn[1][r])],
             Len(trainedOn[1]))

\* 100 * the (1 - contamination)-quantile of the training scores.
TrainingThreshold100 == Percentile100(TrainingScores, 100 - model.contamination)

\* C1: a predict call made while no train call has returned fails with
\* NotTrained and returns nothing; predict returns rows only after some train
\* call has returned.
C1_UntrainedGuard ==
    /\ (call.op = "predict" /\ trainedOn = <<>>) =>
           (outcome = "NotTrained" /\ results = <<>>)
    /\ outcome = "Results" => trainedOn # <<>>

\* C1 witness: predict was refused on a detector whose only train call failed.
C1_Witness ==
    /\ call.op = "predict" /\ call.arg # <<>>
    /\ outcome = "NotTrained"
    /\ vectorizer.fitted /\ trainedOn = <<>>

\* C2: what predict returns has one row per input line, in input order,
\* each with the line unchanged and a status ANOMALY or Normal, ANOMALY
\* exactly when the forest predicts -1 for the line.
C2_OneVerdictPerLine ==
    outcome = "Results" =>
        /\ Len(results) = Len(call.arg)
        /\ \A i \in 1..Len(call.arg) :
              /\ results[i].Log_Message = call.arg[i]
              /\ results[i].Status \in {"ANOMALY", "Normal"}
              /\ results[i].Status = "ANOMALY" <=>
                     ForestPredict(model, Transform(vectorizer, call.arg[i])) = -1

\* C2 witness: a report of two different lines with different statuses.
C2_Witness ==
    /\ outcome = "Results" /\ Len(results) = 2
    /\ results[1].Log_Message # results[2].Log_Message
    /\ results[1].Status = "ANOMALY" /\ results[2].Status = "Normal"

\* C3: the rows predict returns are those a fresh detector of the same
\* contamination, trained only on the logs of the last train call that
\* returned, gives for the same input.
C3_LastTrainingDecides ==
    outcome = "Results" =>
        LET fresh == FreshTrained(model.contamination, trainedOn[1])
        IN results = PredictStep(fresh.vectorizer, fresh.model, fresh.is_trained,
                                 call.arg).results

\* C3 witness: a report with an anomaly from a detector trained more than once.
C3_Witness ==
    /\ outcome = "Results" /\ retrained
    /\ \E i \in 1..Len(results) : results[i].Status = "ANOMALY"

\* C4 as claimed: predict on a trained detector with an empty list returns an
\* empty report.
C4_EmptyBatchReturnsEmpty ==
    (call.op = "predict" /\ is_trained /\ call.arg = <<>>) =>
        (outcome = "Results" /\ results = <<>>)

\* C5 as claimed: train on fewer than 2 lines fails and leaves a detector that
\* was never trained untrained.
C5_FewerThanTwoFails ==
    (call.op = "train" /\ Len(call.arg) < 2) =>
        (outcome # "Trained" /\ (trainedOn = <<>> => ~is_trained))

C7_TrainingOrder ==
    outcome = "Trained" =>
        \A p \in Perms(call.arg) :
            LET other == FreshTrained(model.contamination, p)
            IN \A l \in Lines :
                  LET x == Transform(vectorizer, l)
                  IN /\ Transform(other.vectorizer, l) = x
                     /\ Len(call.arg) <= MaxSamplesAuto =>
                            /\ AnomalyScore(other.model, x) = AnomalyScore(model, x)
                            /\ ForestPredict(other.model, x) = ForestPredict(model, x)

\* C7 as claimed: every order of the lines gives every line the same feature
\* vector, score and verdict.
C7_AnyOrderSameVerdict ==
    outcome = "Trained" =>
        \A p \in Perms(call.arg) :
            LET other == FreshTrained(model.contamination, p)
            IN \A l \in Lines :
                  LET x == Transform(vectorizer, l)
                  IN /\ Transform(other.vectorizer, l) = x
                     /\ AnomalyScore(other.model, x) = AnomalyScore(model, x)
                     /\ ForestPredict(other.model, x) = ForestPredict(model, x)

\* C7 witness: a train call returned for lines that differ, few enough for
\* every tree to see them all, one of them an anomaly of its own corpus.
C7_Witness ==
    /\ outcome = "Trained"
    /\ Len(call.arg) <= MaxSamplesAuto
    /\ \E i, j \in 1..Len(call.arg) : call.arg[i] # call.arg[j]
    /\ \E l \in Lines : ForestPredict(model, Transform(vectorizer, l)) = -1

\* C8 as amended: the threshold is the (1 - contamination)-quantile of the
\* scores of the training lines, and a line is ANOMALY exactly when its score
\* is strictly above it.
C8_StrictlyAboveThreshold ==
    outcome = "Results" =>
        \A i \in 1..Len(results) :
            results[i].Status = "ANOMALY" <=>
                100 * ScoreOfLine(call.arg[i]) > TrainingThreshold100

\* C8 as claimed: a line is ANOMALY exactly when its score is at or above the
\* threshold.
C8_AtOrAboveThreshold ==
    outcome = "Results" =>
        \A i \in 1..Len(results) :
            results[i].Status = "ANOMALY" <=>
                100 * ScoreOfLine(call.arg[i]) >= TrainingThreshold100

\* C8 witness: a report with a line scored exactly at the threshold, from a
\* detector whose training lines do not all score the same.
C8_Witness ==
    /\ outcome = "Results"
    /\ \E i \in 1..Len(results) : 100 * ScoreOfLine(call.arg[i]) = TrainingThreshold100
    /\ \E r, q \in 1..Len(TrainingScores) : TrainingScores[r] # TrainingScores[q]

C10_FailedTrainChangesNothing ==
    [][(call'.op = "train" /\ outcome' \in {"EmptyVocabulary", "InvalidParameter"}) =>
          UNCHANGED <<vectorizer, model, is_trained>>]_vars

====
